---- MODULE Spec2Model ----
(***************************************************************************)
(* Tennis court reservation store (src/app.py).                            *)
(*                                                                         *)
(* The reservations table is a set of rows.  Every browser session runs    *)
(* main(): it fetches the display window, renders the two forms from that  *)
(* fetch, and on a submitted form calls create_reservation or              *)
(* cancel_reservation.  Each SQL statement (with its commit) is one        *)
(* atomic step; cancel_reservation runs a SELECT and, later, a DELETE, and *)
(* other sessions may act between the two.                                 *)
(***************************************************************************)
EXTENDS Integers, Sequences, FiniteSets, TLC

(* ------------------------------ bounds -------------------------------- *)
\* number of concurrent sessions
NumProcs == 2
\* number of days of the display window that are modelled (DAYS_AHEAD days)
NumDays == 2
\* number of entries of TIME_SLOTS that are modelled
NumSlots == 2
\* number of rows ever inserted
MaxId == 2
\* number of distinct values datetime.now() takes
NumTimes == 1

(* --------------------------- configuration ---------------------------- *)
TIME_SLOTS == SubSeq(<<"06:00", "07:00", "08:00", "09:00", "10:00", "11:00",
                       "12:00", "13:00", "14:00", "15:00", "16:00", "17:00",
                       "18:00", "19:00", "20:00", "21:00">>, 1, NumSlots)

\* SQL NULL, and Python's None in a place that holds a str
None == "None"
\* Python's None in a place that holds a row (a record)
NoRow == [id |-> 0]
\* Python's None in a place that holds a tuple, a list or the arguments of a call
NoValue == <<>>

\* truth value of a Python str-or-None: None and "" are false
Truthy(x) == x # None /\ x # ""

Procs == 1 .. NumProcs

(* ------------------------------- dates -------------------------------- *)
\* day ordinal of datetime.now().date(): 30 June, the window crosses into July
Today == 30

\* strftime("%Y-%m-%d") of the day with ordinal n (June has 30 days), as the
\* text's month and day digits; the year and the dashes are the same in
\* every date and take no part in a comparison
Strftime(n) ==
    IF n <= 30 THEN <<0, 6, n \div 10, n % 10>>
               ELSE <<0, 7, (n - 30) \div 10, (n - 30) % 10>>

\* date_strings of main(): the days of the display window, in order
date_strings == [i \in 1 .. NumDays |-> Strftime(Today + (i - 1))]

\* comparison of two TEXT values of equal length (sqlite BINARY collation):
\* a <= b
TextLE(a, b) ==
    \/ a = b
    \/ \E i \in 1 .. Len(a) :
          /\ a[i] < b[i]
          /\ \A j \in 1 .. (i - 1) : a[j] = b[j]

(* ------------------------------ inputs -------------------------------- *)
\* the players who book: a name (non-empty, as the form demands) and a phone
Players == {<<"Alice", "">>, <<"Bob", "787-555-0100">>}
\* passwords typed into the booking form
BookingPasswords == {"", "secret"}
\* passwords typed into the cancel form
Passwords == {"", "secret", "wrong"}
\* values of datetime.now().isoformat()
Timestamps == 1 .. NumTimes

\* hash_password: sha256(password.encode()).hexdigest()
hash_password(password) ==
    CASE password = "" ->
           "e3b0c44298fc1c149afbf4c8996fb92427ae41e4649b934ca495991b7852b855"
      [] password = "secret" ->
           "2bb80d537b1da3e38bd30361aa855686bde0eacd7162fef6a25fe97bf527a25b"
      [] password = "wrong" ->
           "8810ad581e59f2bc3928b261707a71308f7e139eb04820366dc4d5c18d980225"

(* ------------------------------ messages ------------------------------ *)
Created == <<TRUE, "Reservation created successfully!">>
SlotTaken == <<FALSE, "This time slot is already booked.">>
NotFound == <<FALSE, "No reservation found for this time slot.">>
PasswordRequired ==
    <<FALSE, "This reservation is password protected. Please enter the password.">>
PasswordMismatch == <<FALSE, "Incorrect password.">>
Cancelled == <<TRUE, "Reservation cancelled successfully!">>

(* ------------------------------- state -------------------------------- *)
VARIABLES
    reservations,   \* the reservations table: a set of rows
    seq,            \* sqlite_sequence: the largest id ever assigned
    pc,             \* per session: "start" (no run, or a run that ended),
                    \*   "form" (forms rendered), "cancel" (SELECT done)
    booked_slots,   \* per session: per date of the window, the time slots
                    \*   its fetch found booked, while its forms are shown
    cancel_call,    \* per session: arguments of the cancel in progress
    row,            \* per session: the row cancel_reservation fetched
    ret,            \* per session: value the last store call returned
    assigned,       \* history: ids assigned so far
    created_ok,     \* history: per slot, number of creates that succeeded
                    \*          since a DELETE last emptied the slot
    created_taken,  \* history: per slot, has a create failed since a
                    \*          DELETE last emptied the slot
    cancel_ok,      \* history: per id, successful cancels that fetched it
    vacated         \* history: per slot, has a cancel returned success
                    \*          with no create for the slot since

vars == <<reservations, seq, pc, booked_slots, cancel_call, row, ret,
          assigned, created_ok, created_taken, cancel_ok, vacated>>

\* the (date, time_slot) pairs the forms offer
SlotTimes == {TIME_SLOTS[j] : j \in 1 .. NumSlots}

SlotKeys == {<<date_strings[i], TIME_SLOTS[j]>> :
                i \in 1 .. NumDays, j \in 1 .. NumSlots}

(* ---------------------------- the table ------------------------------- *)
\* SELECT * FROM reservations WHERE date = ? AND time_slot = ?
SelectSlot(tbl, date, time_slot) ==
    {r \in tbl : r.date = date /\ r.time_slot = time_slot}

\* fetchone(): the first row of the result, None when it is empty
FetchOne(rows) == IF rows = {} THEN NoRow ELSE CHOOSE r \in rows : TRUE

\* id INTEGER PRIMARY KEY: the largest rowid in the table plus one
MaxRowidPlusOne(tbl, s) ==
    IF tbl = {} THEN 1
    ELSE (CHOOSE m \in {r.id : r \in tbl} : \A r \in tbl : r.id <= m) + 1

\* id INTEGER PRIMARY KEY AUTOINCREMENT: one more than the largest id ever
\* assigned, which sqlite_sequence records
AutoIncrement(tbl, s) == s + 1

\* a table declared without the UNIQUE constraint
NoUniqueConstraint(tbl, date, time_slot) == FALSE

\* UNIQUE(date, time_slot): does inserting a row for the pair violate it
UniqueViolated(tbl, date, time_slot) == SelectSlot(tbl, date, time_slot) # {}

\* an INSERT whose VALUES bind phone and player_name the wrong way round
NewRowSwapped(tbl, s, date, time_slot, player_name, phone, password_hash, created_at) ==
    [id |-> s + 1, date |-> date, time_slot |-> time_slot,
     player_name |-> phone, phone |-> player_name,
     password_hash |-> password_hash, created_at |-> created_at]

\* the row INSERT INTO reservations (...) VALUES (...) adds
NewRow(tbl, s, date, time_slot, player_name, phone, password_hash, created_at) ==
    [id |-> AutoIncrement(tbl, s), date |-> date, time_slot |-> time_slot,
     player_name |-> player_name, phone |-> phone,
     password_hash |-> password_hash, created_at |-> created_at]

\* a DELETE that is never committed: closing the connection rolls it back
DeleteUncommitted(tbl, date, time_slot) == tbl

\* DELETE FROM reservations WHERE date = ? AND time_slot = ?, committed
DeleteSlot(tbl, date, time_slot) == tbl \ SelectSlot(tbl, date, time_slot)

(* ----------------------------- listings ------------------------------- *)
\* get_reservations(date)
get_reservations(tbl, date) ==
    LET rows == {r \in tbl : r.date = date}
    IN  [t \in {r.time_slot : r \in rows} |->
            CHOOSE r \in rows : r.time_slot = t]

\* a range query whose upper bound is exclusive: date >= ? AND date < ?
SelectRangeExclusive(tbl, start_date, end_date) ==
    {r \in tbl : /\ TextLE(start_date, r.date)
                 /\ TextLE(r.date, end_date)
                 /\ r.date # end_date}

\* SELECT * FROM reservations WHERE date >= ? AND date <= ?
SelectRange(tbl, start_date, end_date) ==
    {r \in tbl : TextLE(start_date, r.date) /\ TextLE(r.date, end_date)}

\* d with key k set to v (a dict assignment)
DictSet(d, k, v) == [x \in DOMAIN d \cup {k} |-> IF x = k THEN v ELSE d[x]]

\* the empty dict
EmptyDict == [x \in {} |-> None]

\* the loop of get_all_reservations_in_range over the fetched rows
RECURSIVE GroupRows(_, _)
GroupRows(rows, result) ==
    IF rows = {} THEN result
    ELSE LET r == CHOOSE x \in rows : TRUE
             withDate == IF r.date \in DOMAIN result
                         THEN result
                         ELSE DictSet(result, r.date, EmptyDict)
         IN  GroupRows(rows \ {r},
                       DictSet(withDate, r.date,
                               DictSet(withDate[r.date], r.time_slot, r)))

\* get_all_reservations_in_range(start_date, end_date)
get_all_reservations_in_range(tbl, start_date, end_date) ==
    GroupRows(SelectRange(tbl, start_date, end_date), EmptyDict)

\* dict.get(key, {})
DictGet(d, k) == IF k \in DOMAIN d THEN d[k] ELSE EmptyDict

(* ------------------------------- Init --------------------------------- *)
Init ==
    /\ reservations = {}
    /\ seq = 0
    /\ pc = [p \in Procs |-> "start"]
    /\ booked_slots = [p \in Procs |-> NoValue]
    /\ cancel_call = [p \in Procs |-> NoValue]
    /\ row = [p \in Procs |-> NoRow]
    /\ ret = [p \in Procs |-> NoValue]
    /\ assigned = {}
    /\ created_ok = [k \in SlotKeys |-> 0]
    /\ created_taken = [k \in SlotKeys |-> FALSE]
    /\ cancel_ok = [i \in 1 .. MaxId |-> 0]
    /\ vacated = [k \in SlotKeys |-> FALSE]

(* ------------------------------ actions ------------------------------- *)
\* main() up to the rendering of the forms: fetch the display window
Fetch(p) ==
    /\ pc[p] \in {"start", "form"}
    /\ LET all_reservations ==
              get_all_reservations_in_range(reservations, date_strings[1],
                                            date_strings[NumDays])
       IN  booked_slots' =
              [booked_slots EXCEPT ![p] =
                  [i \in 1 .. NumDays |->
                      DOMAIN DictGet(all_reservations, date_strings[i])]]
    /\ pc' = [pc EXCEPT ![p] = "form"]
    /\ ret' = [ret EXCEPT ![p] = NoValue]
    /\ UNCHANGED <<reservations, seq, cancel_call, row,
                   assigned, created_ok, created_taken, cancel_ok, vacated>>

\* available_slots of the booking form for the date with index i
available_slots(p, i) ==
    {TIME_SLOTS[j] : j \in {n \in 1 .. NumSlots :
                               TIME_SLOTS[n] \notin booked_slots[p][i]}}

\* a create_reservation that swallows the IntegrityError and reports success
create_reservation_swallow(p, date, time_slot, player_name, phone, password, created_at) ==
    LET password_hash == IF Truthy(password) THEN hash_password(password) ELSE None
        k == <<date, time_slot>>
        taken == UniqueViolated(reservations, date, time_slot)
        new == NewRow(reservations, seq, date, time_slot, player_name,
                      phone, password_hash, created_at)
    IN  /\ vacated' = [vacated EXCEPT ![k] = FALSE]
        /\ taken \/ seq < MaxId
        /\ created_ok[k] < MaxId
        /\ reservations' = IF taken THEN reservations ELSE reservations \cup {new}
        /\ seq' = IF taken THEN seq ELSE seq + 1
        /\ assigned' = IF taken THEN assigned ELSE assigned \cup {new.id}
        /\ ret' = [ret EXCEPT ![p] = Created]
        /\ created_ok' = [created_ok EXCEPT ![k] = @ + 1]
        /\ UNCHANGED created_taken

\* a create_reservation written with INSERT OR REPLACE
create_reservation_replace(p, date, time_slot, player_name, phone, password, created_at) ==
    LET password_hash == IF Truthy(password) THEN hash_password(password) ELSE None
        k == <<date, time_slot>>
        new == NewRow(reservations, seq, date, time_slot, player_name,
                      phone, password_hash, created_at)
    IN  /\ vacated' = [vacated EXCEPT ![k] = FALSE]
        /\ seq < MaxId
        /\ reservations' = DeleteSlot(reservations, date, time_slot) \cup {new}
        /\ seq' = seq + 1
        /\ assigned' = assigned \cup {new.id}
        /\ ret' = [ret EXCEPT ![p] = Created]
        /\ created_ok' = [created_ok EXCEPT ![k] = 1]
        /\ UNCHANGED created_taken

\* create_reservation(date, time_slot, player_name, phone, password) called
\* by session p, with created_at the value of datetime.now()
create_reservation(p, date, time_slot, player_name, phone, password, created_at) ==
    LET password_hash == IF Truthy(password) THEN hash_password(password) ELSE None
        k == <<date, time_slot>>
    IN  /\ vacated' = [vacated EXCEPT ![k] = FALSE]
        /\ IF UniqueViolated(reservations, date, time_slot)
           THEN /\ ret' = [ret EXCEPT ![p] = SlotTaken]
                /\ created_taken' = [created_taken EXCEPT ![k] = TRUE]
                /\ UNCHANGED <<reservations, seq, assigned, created_ok>>
           ELSE LET new == NewRow(reservations, seq, date, time_slot, player_name,
                                  phone, password_hash, created_at)
                IN  /\ seq < MaxId
                    /\ reservations' = reservations \cup {new}
                    /\ seq' = IF new.id > seq THEN new.id ELSE seq
                    /\ ret' = [ret EXCEPT ![p] = Created]
                    /\ assigned' = assigned \cup {new.id}
                    /\ created_ok' = [created_ok EXCEPT ![k] = @ + 1]
                    /\ UNCHANGED created_taken

\* the booking form submitted with a name and a slot its fetch showed free
SubmitBooking(p, i, selected_time, player_name, phone, password, created_at) ==
    /\ pc[p] = "form"
    /\ selected_time \in available_slots(p, i)
    /\ create_reservation(p, date_strings[i], selected_time, player_name,
                          phone, password, created_at)
    /\ pc' = [pc EXCEPT ![p] = "start"]
    /\ booked_slots' = [booked_slots EXCEPT ![p] = NoValue]
    /\ UNCHANGED <<cancel_call, row, cancel_ok>>

\* a password check that compares the password itself with the stored digest
PasswordCheckPlain(r, password) ==
    IF Truthy(r.password_hash)
    THEN IF ~Truthy(password) THEN PasswordRequired
         ELSE IF password # r.password_hash THEN PasswordMismatch
         ELSE NoValue
    ELSE NoValue

\* the password check of cancel_reservation on a fetched row: the failure it
\* returns, or NoValue when the cancel goes on to the DELETE
PasswordCheck(r, password) ==
    IF Truthy(r.password_hash)
    THEN IF ~Truthy(password) THEN PasswordRequired
         ELSE IF hash_password(password) # r.password_hash THEN PasswordMismatch
         ELSE NoValue
    ELSE NoValue

\* cancel_reservation up to its DELETE: the SELECT and the checks on its row
CancelSelect(p, date, time_slot, password) ==
    LET fetched == FetchOne(SelectSlot(reservations, date, time_slot))
        failure == IF fetched = NoRow THEN NotFound
                   ELSE PasswordCheck(fetched, password)
    IN  IF failure # NoValue
        THEN /\ ret' = [ret EXCEPT ![p] = failure]
             /\ pc' = [pc EXCEPT ![p] = "start"]
             /\ UNCHANGED <<cancel_call, row>>
        ELSE /\ cancel_call' = [cancel_call EXCEPT ![p] =
                    [date |-> date, time_slot |-> time_slot,
                     password |-> password]]
             /\ row' = [row EXCEPT ![p] = fetched]
             /\ pc' = [pc EXCEPT ![p] = "cancel"]
             /\ UNCHANGED ret

\* the cancel form submitted for a slot its fetch showed booked
SubmitCancel(p, i, cancel_time, cancel_password) ==
    /\ pc[p] = "form"
    /\ cancel_time \in booked_slots[p][i]
    /\ CancelSelect(p, date_strings[i], cancel_time, cancel_password)
    /\ booked_slots' = [booked_slots EXCEPT ![p] = NoValue]
    /\ UNCHANGED <<reservations, seq,
                   assigned, created_ok, created_taken, cancel_ok, vacated>>

\* cancel_reservation from its DELETE on: DELETE, commit, the success return
CancelDelete(p) ==
    /\ pc[p] = "cancel"
    /\ LET k == <<cancel_call[p].date, cancel_call[p].time_slot>>
       IN  /\ reservations' = DeleteSlot(reservations, k[1], k[2])
           /\ created_ok' = [created_ok EXCEPT ![k] = 0]
           /\ created_taken' = [created_taken EXCEPT ![k] = FALSE]
           /\ vacated' = [vacated EXCEPT ![k] = TRUE]
    /\ ret' = [ret EXCEPT ![p] = Cancelled]
    /\ cancel_ok' = [cancel_ok EXCEPT ![row[p].id] = @ + 1]
    /\ pc' = [pc EXCEPT ![p] = "start"]
    /\ cancel_call' = [cancel_call EXCEPT ![p] = NoValue]
    /\ row' = [row EXCEPT ![p] = NoRow]
    /\ UNCHANGED <<seq, booked_slots, assigned>>

Next ==
    \E p \in Procs :
        \/ Fetch(p)
        \/ \E i \in 1 .. NumDays, t \in SlotTimes, pl \in Players,
              pw \in BookingPasswords, ts \in Timestamps :
                SubmitBooking(p, i, t, pl[1], pl[2], pw, ts)
        \/ \E i \in 1 .. NumDays, t \in SlotTimes, pw \in Passwords :
                SubmitCancel(p, i, t, pw)
        \/ CancelDelete(p)

Spec == Init /\ [][Next]_vars

(* ======================= properties of the store ====================== *)
\* the row of the table for a slot key, NoRow when the slot is free
Stored(tbl, k) == FetchOne(SelectSlot(tbl, k[1], k[2]))

\* days a listing may be asked for: the window and a day on either side
QueryDays == (Today - 1) .. (Today + NumDays)

\* the day ordinal a date text stands for
DayOf(date) == CHOOSE n \in QueryDays : Strftime(n) = date

\* is the slot key k listed by get_reservations, or by
\* get_all_reservations_in_range for some range
Listed(tbl, k) ==
    \/ k[2] \in DOMAIN get_reservations(tbl, k[1])
    \/ \E a, b \in QueryDays :
          LET R == get_all_reservations_in_range(tbl, Strftime(a), Strftime(b))
          IN  k[1] \in DOMAIN R /\ k[2] \in DOMAIN R[k[1]]

\* C1: the reservations table never holds two rows for the same
\* (date, time_slot) pair.
C1_OneRowPerSlot ==
    \A r1, r2 \in reservations :
        (r1.date = r2.date /\ r1.time_slot = r2.time_slot) => r1 = r2

\* a booked slot for which a second create was refused, after a cancel
C1_Witness ==
    \E k \in SlotKeys :
        /\ created_taken[k]
        /\ Cardinality(SelectSlot(reservations, k[1], k[2])) = 1
        /\ \E i \in 1 .. MaxId : cancel_ok[i] > 0

\* C2: of the create_reservation calls made for a slot since it was last
\* empty, exactly one returned success and every other returned SlotTaken.
C2_ExactlyOneCreateWins ==
    \A k \in SlotKeys :
        (created_ok[k] > 0 \/ created_taken[k]) => created_ok[k] = 1

\* two sessions that both rendered the slot as free and both submitted a
\* booking for it: one was told Created, the other SlotTaken
C2_Witness ==
    \E p, q \in Procs, k \in SlotKeys :
        /\ p # q
        /\ pc[p] = "start" /\ ret[p] = Created
        /\ pc[q] = "start" /\ ret[q] = SlotTaken
        /\ created_ok[k] = 1 /\ created_taken[k]

\* C3: a row with a password_hash leaves the table only in the DELETE of a
\* cancel_reservation call whose password hashes to the row's digest.
C3_ProtectedRowNeedsPassword ==
    [][\A r \in reservations \ reservations' :
          Truthy(r.password_hash) =>
             \E p \in Procs :
                /\ pc[p] = "cancel" /\ pc'[p] = "start"
                /\ cancel_call[p].date = r.date
                /\ cancel_call[p].time_slot = r.time_slot
                /\ hash_password(cancel_call[p].password) = r.password_hash]_vars

\* the decision table of cancel, read off the stored state
CancelDecision(tbl, date, time_slot, password) ==
    LET rows == SelectSlot(tbl, date, time_slot)
        r == CHOOSE x \in rows : TRUE
    IN  IF rows = {} THEN NotFound
        ELSE IF r.password_hash # None /\ password = "" THEN PasswordRequired
        ELSE IF r.password_hash # None
                /\ hash_password(password) # r.password_hash THEN PasswordMismatch
        ELSE Cancelled

\* C4: a cancel_reservation call that no other session interferes with
\* returns what the decision table gives for the stored state, and deletes
\* the row exactly when that is success.
C4_CancelDecisionTable ==
    [][/\ \A p \in Procs, i \in 1 .. NumDays, t \in SlotTimes, pw \in Passwords :
             SubmitCancel(p, i, t, pw) =>
                LET want == CancelDecision(reservations, date_strings[i], t, pw)
                IN  IF pc'[p] = "start"
                    THEN ret'[p] = want /\ want # Cancelled
                         /\ reservations' = reservations
                    ELSE want = Cancelled
       /\ \A p \in Procs :
             (/\ CancelDelete(p)
              /\ Stored(reservations, <<cancel_call[p].date,
                                        cancel_call[p].time_slot>>) = row[p])
             => /\ ret'[p] = CancelDecision(reservations, cancel_call[p].date,
                                            cancel_call[p].time_slot,
                                            cancel_call[p].password)
                /\ ret'[p] = Cancelled
                /\ reservations' = reservations \ {row[p]}
                /\ row[p] \in reservations]_vars

\* one session was refused for its password, another cancelled a reservation
C4_Witness ==
    \E p, q \in Procs :
        /\ ret[p] \in {PasswordRequired, PasswordMismatch}
        /\ ret[q] = Cancelled
        /\ \E i \in 1 .. MaxId : cancel_ok[i] = 1

\* C5: create_reservation for a slot with no stored reservation returns
\* success, and afterwards get_reservations(date) and every
\* get_all_reservations_in_range whose range contains the date map the
\* slot to a reservation with the submitted player_name.
C5_CreateFreeSlot ==
    [][\A p \in Procs, i \in 1 .. NumDays, t \in SlotTimes, pl \in Players,
          pw \in BookingPasswords, ts \in Timestamps :
          (/\ SubmitBooking(p, i, t, pl[1], pl[2], pw, ts)
           /\ SelectSlot(reservations, date_strings[i], t) = {})
          => LET d == date_strings[i]
                 day == get_reservations(reservations', d)
             IN  /\ ret'[p] = Created
                 /\ t \in DOMAIN day
                 /\ day[t].player_name = pl[1]
                 /\ \A a, b \in QueryDays :
                       (a <= DayOf(d) /\ DayOf(d) <= b) =>
                          LET R == get_all_reservations_in_range(
                                      reservations', Strftime(a), Strftime(b))
                          IN  /\ d \in DOMAIN R
                              /\ t \in DOMAIN R[d]
                              /\ R[d][t].player_name = pl[1]]_vars

\* a session has just booked a slot, and the slot is listed
C5_Witness ==
    \E p \in Procs, k \in SlotKeys :
        /\ pc[p] = "start" /\ ret[p] = Created
        /\ created_ok[k] = 1
        /\ Listed(reservations, k)

\* C6: create_reservation for a slot that has a stored reservation returns
\* SlotTaken and leaves the table as it was.
C6_CreateTakenSlot ==
    [][\A p \in Procs, i \in 1 .. NumDays, t \in SlotTimes, pl \in Players,
          pw \in BookingPasswords, ts \in Timestamps :
          (/\ SubmitBooking(p, i, t, pl[1], pl[2], pw, ts)
           /\ SelectSlot(reservations, date_strings[i], t) # {})
          => /\ ret'[p] = SlotTaken
             /\ reservations' = reservations]_vars

\* a session was refused a slot whose reservation is still stored
C6_Witness ==
    \E p \in Procs, k \in SlotKeys :
        /\ pc[p] = "start" /\ ret[p] = SlotTaken
        /\ created_taken[k]
        /\ Stored(reservations, k) # NoRow

\* C7: once a cancel_reservation has returned success for a slot, and
\* until the next create for the slot, no listing shows the slot; and the
\* next create_reservation for the slot returns success.
C7_CancelFreesSlot ==
    /\ [](\A k \in SlotKeys : vacated[k] => ~Listed(reservations, k))
    /\ [][\A p \in Procs, i \in 1 .. NumDays, t \in SlotTimes, pl \in Players,
             pw \in BookingPasswords, ts \in Timestamps :
             (/\ SubmitBooking(p, i, t, pl[1], pl[2], pw, ts)
              /\ vacated[<<date_strings[i], t>>])
             => ret'[p] = Created]_vars

\* a slot that was cancelled and has been booked again
C7_Witness ==
    \E p, q \in Procs, k \in SlotKeys :
        /\ ret[p] = Cancelled
        /\ ret[q] = Created
        /\ ~vacated[k]
        /\ Stored(reservations, k) # NoRow
        /\ Stored(reservations, k).id > 1
        /\ cancel_ok[1] = 1
        /\ Cardinality(reservations) = 1

\* C8: get_all_reservations_in_range(start, end) returns exactly the stored
\* reservations dated from start to end, both included, grouped by date
\* and then time_slot; its keys are the dates in the range that have a
\* reservation.
C8_RangeListing ==
    \A a, b \in QueryDays :
        LET R == get_all_reservations_in_range(reservations,
                                               Strftime(a), Strftime(b))
            inRange == {r \in reservations :
                           a <= DayOf(r.date) /\ DayOf(r.date) <= b}
        IN  /\ DOMAIN R = {r.date : r \in inRange}
            /\ \A d \in DOMAIN R :
                  /\ DOMAIN R[d] = {r.time_slot : r \in {x \in inRange : x.date = d}}
                  /\ \A t \in DOMAIN R[d] :
                        /\ R[d][t] \in inRange
                        /\ R[d][t].date = d
                        /\ R[d][t].time_slot = t

\* reservations on the last day of the window only: a range over the whole
\* window lists that day and not the empty first day
C8_Witness ==
    /\ reservations # {}
    /\ \A r \in reservations : r.date = date_strings[NumDays]
    /\ DOMAIN get_all_reservations_in_range(
                 reservations, date_strings[1], date_strings[NumDays])
          = {date_strings[NumDays]}

\* C9: an id given to a new reservation is greater than every id assigned
\* before it.
C9_IdsIncrease ==
    [][\A r \in reservations' \ reservations :
          \A i \in assigned : r.id > i]_vars

\* a reservation booked after the first reservation was cancelled
C9_Witness ==
    /\ cancel_ok[1] > 0
    /\ \E r \in reservations : r.id > 1
    /\ 1 \notin {r.id : r \in reservations}

\* C10: for each reservation, at most one cancel_reservation call that
\* fetched it returns success.
C10_CancelledOnce ==
    \A i \in 1 .. MaxId : cancel_ok[i] <= 1

====
